---- MODULE Spec2Model ----
(***************************************************************************)
(* Attendance session lifecycle of AttendPro: the AttendanceView           *)
(* (fetchInitial, verifyIdentityWithAI, finalizeAttendance), the store     *)
(* wrapper db.upsert and the App's auto clock-out scrub, run by several    *)
(* browser sessions against one shared store.                              *)
(*                                                                         *)
(* Time is counted in ticks; a calendar day has TicksPerDay ticks.  An     *)
(* instant is a UTC tick count, a calendar date is a day number, and a     *)
(* client's local wall clock is the instant shifted by its offset tz.      *)
(* Every await of the code is one action; the synchronous code between     *)
(* two awaits belongs to the action of the await that precedes it.         *)
(***************************************************************************)
EXTENDS Integers, Sequences, FiniteSets, TLC

(* ------------------------------ bounds -------------------------------- *)
TicksPerDay == 4
MaxTicks == 3
ShortTicks == 1
MaxRecords == 2
MaxStreams == 2
MaxZones == 2

(* ------------------------- program constants -------------------------- *)
officialClockInTime == 1
officialClockOutTime == 2
MatchThreshold == 85
EnrollConfidence == 100

(* The clock starts on day 1 at the official clock-in time.                *)
(* The config db.initialize stores, and the row's absence.                 *)
DefaultConfig == [officialClockInTime |-> officialClockInTime,
                  officialClockOutTime |-> officialClockOutTime]
NoConfig == [officialClockInTime |-> -1, officialClockOutTime |-> -1]

StartTime == TicksPerDay + officialClockInTime
MaxTime == StartTime + MaxTicks
Clients == {"c1", "c2"}
(* u1 reports to u2; u3 is an employee whose managerId is not set.          *)
Users == {"u1", "u2", "u3"}
UserRole == [u1 |-> "EMPLOYEE", u2 |-> "MANAGER", u3 |-> "EMPLOYEE"]
managerId == [u1 |-> "u2", u2 |-> "", u3 |-> ""]
(* const [user, setUser] = useState<User | null>(null): nobody logged in.  *)
NoUser == ""
TZOffsets == {-1, 0, 1}
Missing == -1
NoTime == -1
FingerprintSentinel == "biometric_fingerprint_verified"
Image(c) == IF c = "c1" THEN "imgA" ELSE "imgB"

MismatchError == "Biometric Mismatch"
HandshakeError == "Neural Handshake failed"
GeofenceError == "Check-in denied: Outside authorized geofence."
GpsError == "GPS fault"
CloudError == "Cloud rejection"

(* One authorized zone on a line: centre 0, radius 1.                      *)
Zones == <<[latitude |-> 0, radius |-> 1]>>
Positions == {1, 2}
GpsFailed == -2

(* A row of attendance.  marks counts the ' [AUTO_TERMINATED]' markers at  *)
(* the end of selfieBase64.  closedBy is no column of the table: it         *)
(* remembers which operation wrote the clockOut the row holds.              *)
NoRecord == [id |-> -1, userId |-> "", date |-> -1, clockIn |-> -1,
             clockOut |-> NoTime, pos |-> -1, selfieBase64 |-> "",
             marks |-> 0, isLate |-> FALSE, closedBy |-> ""]

(* ------------------------- pure computations -------------------------- *)
(* new Date().toISOString().split('T')[0]: the UTC calendar day.           *)
IsoDate(t) == t \div TicksPerDay

(* The local calendar day of an instant for a client at offset z.          *)
LocalDate(t, z) == (t + z) \div TicksPerDay

(* d = new Date(); d.setHours(h, m, 0, 0): local day of t at tick h.       *)
SetHours(t, z, h) == LocalDate(t, z) * TicksPerDay + h - z

calculateDistance(lat1, lat2) == IF lat1 >= lat2 THEN lat1 - lat2 ELSE lat2 - lat1

(* A variant that leaves the boundary of a zone outside.                    *)
matchedLoc_Inside(locations, p) ==
    \E i \in 1..Len(locations) :
        calculateDistance(p, locations[i].latitude) < locations[i].radius

(* locations.find(loc => distance <= loc.radius) !== undefined             *)
matchedLoc(locations, p) ==
    \E i \in 1..Len(locations) :
        calculateDistance(p, locations[i].latitude) <= locations[i].radius

(* The oracle's reply: the call throws, the text does not parse, or an     *)
(* object whose fields may be missing.                                     *)
NoReply == [kind |-> "none", isMatch |-> FALSE, confidence |-> Missing]

OracleReply(confidences) ==
    {[kind |-> "throws", isMatch |-> FALSE, confidence |-> Missing],
     [kind |-> "unparsable", isMatch |-> FALSE, confidence |-> Missing]}
    \cup [kind : {"answer"}, isMatch : BOOLEAN, confidence : confidences \cup {Missing}]

(* A variant of the gate that passes only above the threshold.             *)
verifyIdentityWithAI_Strict(isEnrolling, masterSelfie, o) ==
    IF isEnrolling \/ masterSelfie = ""
    THEN [threw |-> FALSE, isMatch |-> TRUE, confidence |-> EnrollConfidence,
          oracleCalled |-> FALSE]
    ELSE IF o.kind # "answer"
    THEN [threw |-> TRUE, isMatch |-> FALSE, confidence |-> 0, oracleCalled |-> TRUE]
    ELSE [threw |-> FALSE,
          isMatch |-> o.isMatch /\ o.confidence # Missing
                               /\ o.confidence > MatchThreshold,
          confidence |-> IF o.confidence = Missing THEN 0 ELSE o.confidence,
          oracleCalled |-> TRUE]

(* A variant of the gate that lets the user through when the oracle call   *)
(* fails.                                                                  *)
verifyIdentityWithAI_FailOpen(isEnrolling, masterSelfie, o) ==
    IF isEnrolling \/ masterSelfie = ""
    THEN [threw |-> FALSE, isMatch |-> TRUE, confidence |-> EnrollConfidence,
          oracleCalled |-> FALSE]
    ELSE IF o.kind # "answer"
    THEN [threw |-> FALSE, isMatch |-> TRUE, confidence |-> EnrollConfidence,
          oracleCalled |-> TRUE]
    ELSE [threw |-> FALSE,
          isMatch |-> o.isMatch /\ o.confidence # Missing
                               /\ o.confidence >= MatchThreshold,
          confidence |-> IF o.confidence = Missing THEN 0 ELSE o.confidence,
          oracleCalled |-> TRUE]

(* The oracle is asked only for a view that holds a master profile and is  *)
(* not enrolling; a reply that is no object makes the call throw.          *)
verifyIdentityWithAI(isEnrolling, masterSelfie, o) ==
    IF isEnrolling \/ masterSelfie = ""
    THEN [threw |-> FALSE, isMatch |-> TRUE, confidence |-> EnrollConfidence,
          oracleCalled |-> FALSE]
    ELSE IF o.kind # "answer"
    THEN [threw |-> TRUE, isMatch |-> FALSE, confidence |-> 0, oracleCalled |-> TRUE]
    ELSE [threw |-> FALSE,
          isMatch |-> o.isMatch /\ o.confidence # Missing
                               /\ o.confidence >= MatchThreshold,
          confidence |-> IF o.confidence = Missing THEN 0 ELSE o.confidence,
          oracleCalled |-> TRUE]

(* A variant that never raises the mismatch.                               *)
MismatchThrown_Never(r) == FALSE

(* if (!verificationResult.isMatch) throw new Error('Biometric Mismatch..') *)
MismatchThrown(r) == ~r.isMatch

(* A variant that holds every role to the geofence.                        *)
GeofenceDenied_AllRoles(matched, role) == ~matched

(* A variant that tests the role the wrong way round.                      *)
GeofenceDenied_OtherRoles(matched, role) == ~matched /\ role # "EMPLOYEE"

(* if (!matchedLoc && user.role === UserRole.EMPLOYEE) throw ...           *)
GeofenceDenied(matched, role) == ~matched /\ role = "EMPLOYEE"

(* A variant that counts the official instant itself as late.              *)
IsLate_AtOrAfter(t, z, official, role) ==
    t >= SetHours(t, z, official) /\ role = "EMPLOYEE"

(* now > officialDate && user.role === EMPLOYEE                            *)
IsLate(t, z, official, role) == t > SetHours(t, z, official) /\ role = "EMPLOYEE"

(* A variant of the upsert that never replaces a row's clockOut.           *)
Upsert_KeepsClockOut(table, data, sendsClockOut) ==
    LET old == {r \in table : r.id = data.id}
        row == IF old = {} THEN data
               ELSE [data EXCEPT !.clockOut = (CHOOSE r \in old : TRUE).clockOut,
                                 !.closedBy = (CHOOSE r \in old : TRUE).closedBy]
    IN  (table \ old) \cup {row}

(* supabase upsert on the primary key id: the columns sent replace the     *)
(* row's, a column not sent (clockOut of a new record) keeps its value.    *)
Upsert(table, data, sendsClockOut) ==
    LET old == {r \in table : r.id = data.id}
        row == IF old = {} \/ sendsClockOut THEN data
               ELSE [data EXCEPT !.clockOut = (CHOOSE r \in old : TRUE).clockOut,
                                 !.closedBy = (CHOOSE r \in old : TRUE).closedBy]
    IN  (table \ old) \cup {row}

(* .select('*').eq('userId', u).eq('date', d).single(): the row when       *)
(* exactly one matches, otherwise no data.                                 *)
SingleFor(table, u, d) ==
    LET m == {r \in table : r.userId = u /\ r.date = d}
    IN  IF Cardinality(m) = 1 THEN CHOOSE r \in m : TRUE ELSE NoRecord

(* ------------------------------- state -------------------------------- *)
VARIABLES
    now,            \* the wall clock, a UTC instant
    tz,             \* the clients' offset from UTC
    config,         \* the config of the system_config row 'global', or NoConfig
    attendance,     \* table attendance: a set of rows, id unique
    profile,        \* users.profileSelfie per user, "" when absent
    notifications,  \* table notifications
    user,           \* the user logged in at each client
    view,           \* AttendanceView state of each client
    fin,            \* the running finalizeAttendance call of each client
    scrub,          \* the running runAutoClockOutScrub of each client
    camera          \* the media streams each client's browser holds open

vars == <<now, tz, config, attendance, profile, notifications, user,
          view, fin, scrub, camera>>

(* What no operation of the program changes.                               *)
fixed == <<tz, config, user>>

(* The outcomes of a call to the store, the oracle or the GPS: it succeeds *)
(* or it fails.  A specification without faults passes NoFault.            *)
Outcomes == BOOLEAN
NoFault == {TRUE}

InitialView == [isLoading |-> TRUE, today |-> -1, locations |-> <<>>,
                currentRecord |-> NoRecord, isEnrolling |-> FALSE,
                masterSelfie |-> "", isProcessing |-> FALSE,
                authStage |-> "idle", selfieStream |-> FALSE,
                error |-> "", errorConfidence |-> Missing]

IdleFin == [pc |-> "unmounted", selfieBase64 |-> "", currentRecord |-> NoRecord,
            isEnrolling |-> FALSE, masterSelfie |-> "", locations |-> <<>>,
            today |-> -1, reply |-> NoReply, at |-> -1, passed |-> FALSE,
            pos |-> -1, matched |-> FALSE, official |-> -1, stamp |-> NoTime,
            writes |-> {}]

IdleScrub == [pc |-> "off", scrubbing |-> FALSE, queue |-> <<>>,
              listedAt |-> NoTime, closeAt |-> NoTime]

(* No getUserMedia call is pending and no stream's tracks are running.     *)
NoCamera == [opening |-> "no", live |-> 0]

(* Nothing stored, nobody has opened the attendance page, no scrub runs.   *)
InitCommon ==
    /\ now = StartTime
    /\ attendance = {}
    /\ profile = [u \in Users |-> ""]
    /\ notifications = {}
    /\ view = [c \in Clients |-> InitialView]
    /\ fin = [c \in Clients |-> IdleFin]
    /\ scrub = [c \in Clients |-> IdleScrub]
    /\ camera = [c \in Clients |-> NoCamera]

(* ------------------------------ the clock ----------------------------- *)
Tick(horizon) ==
    /\ now < horizon
    /\ now' = now + 1
    /\ UNCHANGED <<attendance, profile, notifications, view, fin, scrub, fixed, camera>>

(* ----------------------- AttendanceView: loading ---------------------- *)
Role(c) == UserRole[user[c]]

Busy(c) == fin[c].pc \notin {"unmounted", "idle"}

(* Every state change renders the view again, and the render computes      *)
(* today anew.                                                             *)
Render(v) == [v EXCEPT !.today = IsoDate(now)]

(* useEffect(..., [user.id, today]): a render on another day than the      *)
(* last one runs fetchInitial again, over the state the view holds.  The   *)
(* renders of one call are taken together at its end.                      *)
Rerun(lastToday) == IF lastToday # IsoDate(now) THEN "fetchRecords" ELSE "idle"

(* The view is mounted (or the page reloaded): useState initial values,    *)
(* today computed by the render, fetchInitial started.  A reload of the    *)
(* page ends the streams and the requests of the page it replaces.         *)
Mount(c) ==
    /\ ~Busy(c)
    /\ view' = [view EXCEPT ![c] = [InitialView EXCEPT !.today = IsoDate(now)]]
    /\ fin' = [fin EXCEPT ![c] = [IdleFin EXCEPT !.pc = "fetchRecords"]]
    /\ camera' = [camera EXCEPT ![c] = IF fin[c].pc = "idle" THEN NoCamera ELSE @]
    /\ UNCHANGED <<now, attendance, profile, notifications, scrub, fixed>>

(* await Promise.all([db.getAll('locations'), attendance ... .single()])   *)
(* db.getAll throws on a store error: the catch leaves the state as        *)
(* constructed.  The attendance query reports an error as no data.         *)
FetchRecords(c, outs) ==
    /\ fin[c].pc = "fetchRecords"
    /\ \E locsOk \in outs, recOk \in outs :
        IF ~locsOk
        THEN /\ view' = [view EXCEPT ![c] = Render([@ EXCEPT !.isLoading = FALSE])]
             /\ fin' = [fin EXCEPT ![c].pc = Rerun(view[c].today)]
        ELSE LET data == IF recOk
                         THEN SingleFor(attendance, user[c], view[c].today)
                         ELSE NoRecord
             IN  /\ view' = [view EXCEPT ![c].locations = Zones,
                                         ![c].currentRecord =
                                             IF data # NoRecord THEN data ELSE @]
                 /\ fin' = [fin EXCEPT ![c].pc = "fetchProfile"]
    /\ UNCHANGED <<now, attendance, profile, notifications, scrub, fixed, camera>>

(* await users.select('profileSelfie') ... .single(); an error is reported *)
(* as no data.                                                             *)
FetchProfile(c, outs) ==
    /\ fin[c].pc = "fetchProfile"
    /\ \E ok \in outs :
        LET profileSelfie == IF ok THEN profile[user[c]] ELSE ""
        IN  view' = [view EXCEPT ![c] = Render(
                        [@ EXCEPT !.masterSelfie =
                                      IF profileSelfie # "" THEN profileSelfie ELSE @,
                                  !.isEnrolling = (profileSelfie = ""),
                                  !.isLoading = FALSE])]
    /\ fin' = [fin EXCEPT ![c].pc = Rerun(view[c].today)]
    /\ UNCHANGED <<now, attendance, profile, notifications, scrub, fixed, camera>>

(* ------------------ AttendanceView: finalizeAttendance ---------------- *)
InFlightClockIns ==
    Cardinality({c \in Clients : fin[c].pc \in {"verify", "locate", "enroll", "record"}
                                 /\ fin[c].currentRecord = NoRecord})

(* A variant of the end of the call that leaves the view as it stands.     *)
Completed_AsIs(v) == Render(v)

(* catch (err): setError(err.message); setAuthStage('idle');               *)
(* finally: setIsProcessing(false)                                         *)
Rejected(v, msg, conf) ==
    Render([v EXCEPT !.error = msg, !.errorConfidence = conf, !.authStage = "idle",
                     !.isProcessing = FALSE])

(* The call has returned: its locals are gone.                             *)
Returned == [IdleFin EXCEPT !.pc = "idle"]

(* The call of client c returns and the view is rendered.                  *)
Return(c) == [Returned EXCEPT !.pc = Rerun(fin[c].today)]

(* setAuthStage('idle'); finally: setIsProcessing(false)                   *)
Completed(v) == Render([v EXCEPT !.authStage = "idle", !.isProcessing = FALSE])

(* if (selfieStream) { tracks.forEach(stop); setSelfieStream(null) }:      *)
(* the stream the view holds is stopped; a stream it does not hold is not. *)
stopCamera(c) ==
    IF view[c].selfieStream THEN [camera[c] EXCEPT !.live = @ - 1] ELSE camera[c]

(* The user picks a method and finalizeAttendance(selfieBase64) is called  *)
(* with the state of the render that built it: by captureFace, after       *)
(* stopCamera(), with the image, or by the touch button with nothing.  The *)
(* buttons that lead here are shown while no record is held or the held    *)
(* record is open.  What the oracle will answer about this capture (reply) *)
(* and what the GPS will report (at) depend on nothing in the store and    *)
(* are drawn here.                                                         *)
Begin(c, selfie, reply, at) ==
    /\ fin[c].pc = "idle"
    /\ ~view[c].isLoading
    /\ ~view[c].isProcessing
    /\ view[c].currentRecord.clockOut = NoTime
    /\ view[c].currentRecord = NoRecord =>
           Cardinality(attendance) + InFlightClockIns < MaxRecords
    /\ view' = [view EXCEPT ![c] = Render(
                    [@ EXCEPT !.error = "", !.errorConfidence = Missing,
                              !.isProcessing = TRUE,
                              !.selfieStream = IF selfie # "" THEN FALSE ELSE @,
                              !.authStage = IF selfie # "" THEN "ai_analyzing" ELSE @])]
    /\ fin' = [fin EXCEPT ![c] =
                  [IdleFin EXCEPT !.pc = IF selfie # "" THEN "verify" ELSE "locate",
                                  !.selfieBase64 = selfie,
                                  !.reply = reply, !.at = at,
                                  !.currentRecord = view[c].currentRecord,
                                  !.isEnrolling = view[c].isEnrolling,
                                  !.masterSelfie = view[c].masterSelfie,
                                  !.locations = view[c].locations,
                                  !.today = view[c].today]]
    /\ camera' = [camera EXCEPT ![c] = IF selfie # "" THEN stopCamera(c) ELSE @]
    /\ UNCHANGED <<now, attendance, profile, notifications, scrub, fixed>>

(* ---------------- AttendanceView: the verification dialogue ----------- *)
CameraError == "Face Recognition Failure: Camera access denied."

(* onClick={() => setAuthStage('method_selection')}: Verify Identity, or   *)
(* Finalize Session while the held record is open.                         *)
Select(c) ==
    /\ fin[c].pc = "idle"
    /\ ~view[c].isLoading
    /\ ~view[c].isProcessing
    /\ view[c].authStage = "idle"
    /\ view[c].currentRecord.clockOut = NoTime
    /\ view' = [view EXCEPT ![c] = Render([@ EXCEPT !.authStage = "method_selection"])]
    /\ UNCHANGED <<now, attendance, profile, notifications, fin, scrub, fixed, camera>>

(* onClick={() => { setAuthStage('verifying_face'); startCamera(); }}:     *)
(* getUserMedia is called and awaited.                                     *)
ChooseFace(c) ==
    /\ fin[c].pc = "idle"
    /\ view[c].authStage = "method_selection"
    /\ camera[c].opening = "no"
    /\ camera[c].live < MaxStreams
    /\ view' = [view EXCEPT ![c] = Render([@ EXCEPT !.authStage = "verifying_face"])]
    /\ camera' = [camera EXCEPT ![c].opening = "view"]
    /\ UNCHANGED <<now, attendance, profile, notifications, fin, scrub, fixed>>

(* startCamera after its await: setSelfieStream(stream), or the catch:     *)
(* setError(...); setAuthStage('idle').  The setters of a view that is     *)
(* gone do nothing; the stream the browser has opened runs all the same.   *)
startCamera(c, outs) ==
    /\ camera[c].opening # "no"
    /\ \E ok \in outs :
        /\ camera' = [camera EXCEPT ![c] =
                          [opening |-> "no", live |-> IF ok THEN @.live + 1 ELSE @.live]]
        /\ view' = IF camera[c].opening = "gone" THEN view
                   ELSE IF ok
                   THEN [view EXCEPT ![c] = Render([@ EXCEPT !.selfieStream = TRUE])]
                   ELSE [view EXCEPT ![c] = Render([@ EXCEPT !.error = CameraError,
                                                            !.authStage = "idle"])]
    /\ UNCHANGED <<now, attendance, profile, notifications, fin, scrub, fixed>>

(* onClick={() => setAuthStage('verifying_fingerprint')}                   *)
ChooseTouch(c) ==
    /\ fin[c].pc = "idle"
    /\ view[c].authStage = "method_selection"
    /\ view' = [view EXCEPT ![c] =
                    Render([@ EXCEPT !.authStage = "verifying_fingerprint"])]
    /\ UNCHANGED <<now, attendance, profile, notifications, fin, scrub, fixed, camera>>

(* 'Cancel Request' and 'Back to options': setAuthStage('idle').  The      *)
(* camera stage shows no such button.                                      *)
Cancel(c) ==
    /\ fin[c].pc = "idle"
    /\ ~view[c].isProcessing
    /\ view[c].authStage \in {"method_selection", "verifying_fingerprint"}
    /\ view' = [view EXCEPT ![c] = Render([@ EXCEPT !.authStage = "idle"])]
    /\ UNCHANGED <<now, attendance, profile, notifications, fin, scrub, fixed, camera>>

(* onClick={captureFace} of the camera stage.                              *)
captureFace(c, reply, at) ==
    /\ view[c].authStage = "verifying_face"
    /\ Begin(c, Image(c), reply, at)

(* onClick={() => finalizeAttendance()} of the fingerprint stage.          *)
Touch(c, at) ==
    /\ view[c].authStage = "verifying_fingerprint"
    /\ Begin(c, "", NoReply, at)

(* The user goes to another page of the App: the view is unmounted.  The   *)
(* component has no effect cleanup, so nothing is stopped; a pending       *)
(* getUserMedia call will answer a view that is gone.                      *)
Unmount(c) ==
    /\ fin[c].pc = "idle"
    /\ view' = [view EXCEPT ![c] = InitialView]
    /\ fin' = [fin EXCEPT ![c] = IdleFin]
    /\ camera' = [camera EXCEPT ![c].opening = IF @ = "view" THEN "gone" ELSE @]
    /\ UNCHANGED <<now, attendance, profile, notifications, scrub, fixed>>

(* verificationResult = await verifyIdentityWithAI(selfieBase64);          *)
(* if (!verificationResult.isMatch) throw Biometric Mismatch               *)
Verify(c) ==
    LET r == verifyIdentityWithAI(fin[c].isEnrolling, fin[c].masterSelfie,
                                  fin[c].reply)
    IN  /\ fin[c].pc = "verify"
        /\ IF r.threw
           THEN /\ view' = [view EXCEPT ![c] = Rejected(@, HandshakeError, Missing)]
                /\ fin' = [fin EXCEPT ![c] = Return(c)]
           ELSE IF MismatchThrown(r)
           THEN /\ view' = [view EXCEPT ![c] =
                               Rejected(@, MismatchError, r.confidence)]
                /\ fin' = [fin EXCEPT ![c] = Return(c)]
           ELSE /\ view' = view
                /\ fin' = [fin EXCEPT ![c].pc = "locate", ![c].passed = r.isMatch]
        /\ UNCHANGED <<now, attendance, profile, notifications, scrub, fixed, camera>>

(* config = (configRaw?.config) || { officialClockInTime: '09:00' }: a     *)
(* read that fails or finds no row gives the built-in time.                *)
ConfigRead(ok) ==
    IF ok /\ config # NoConfig THEN config.officialClockInTime
    ELSE officialClockInTime

(* The config read, await getCurrentPosition(), and the geofence check.    *)
Locate(c, outs) ==
    /\ fin[c].pc = "locate"
    /\ \E cfgOk \in outs : LET p == fin[c].at IN
        IF p = GpsFailed
        THEN /\ view' = [view EXCEPT ![c] = Rejected(@, GpsError, Missing)]
             /\ fin' = [fin EXCEPT ![c] = Return(c)]
        ELSE IF GeofenceDenied(matchedLoc(fin[c].locations, p), Role(c))
        THEN /\ view' = [view EXCEPT ![c] = Rejected(@, GeofenceError, Missing)]
             /\ fin' = [fin EXCEPT ![c] = Return(c)]
        ELSE /\ view' = view
             /\ fin' = [fin EXCEPT ![c].pos = p, ![c].at = -1,
                                   ![c].reply = NoReply,
                                   ![c].matched = matchedLoc(fin[c].locations, p),
                                   ![c].official = ConfigRead(cfgOk),
                                   ![c].stamp = IF fin[c].isEnrolling
                                                    /\ fin[c].selfieBase64 # ""
                                                 THEN NoTime ELSE now,
                                   ![c].pc = IF fin[c].isEnrolling
                                                 /\ fin[c].selfieBase64 # ""
                                              THEN "enroll" ELSE "record"]
    /\ UNCHANGED <<now, attendance, profile, notifications, scrub, fixed, camera>>

(* await users.update({ profileSelfie: selfieBase64 }).eq('id', user.id)   *)
(* The update's error is not looked at.                                    *)
Enroll(c, outs) ==
    /\ fin[c].pc = "enroll"
    /\ \E ok \in outs :
        /\ profile' = IF ok THEN [profile EXCEPT ![user[c]] = fin[c].selfieBase64]
                      ELSE profile
        /\ fin' = [fin EXCEPT ![c].pc = "record", ![c].stamp = now,
                              ![c].writes = IF ok THEN @ \cup {"users"} ELSE @]
    /\ view' = [view EXCEPT ![c] = Render([@ EXCEPT !.isEnrolling = FALSE,
                                                     !.masterSelfie = fin[c].selfieBase64])]
    /\ UNCHANGED <<now, attendance, notifications, scrub, fixed, camera>>

(* A variant that stores what was captured, and nothing for a touch.        *)
newRecord_Captured(c) ==
    [id |-> fin[c].stamp, userId |-> user[c], date |-> fin[c].today,
     clockIn |-> fin[c].stamp,
     clockOut |-> NoTime, pos |-> fin[c].pos,
     selfieBase64 |-> fin[c].selfieBase64,
     marks |-> 0,
     isLate |-> IsLate(fin[c].stamp, tz, fin[c].official, Role(c)),
     closedBy |-> ""]

(* const newRecord: AttendanceRecord = { id: att_<now>, ... }              *)
newRecord(c) ==
    [id |-> fin[c].stamp, userId |-> user[c], date |-> fin[c].today,
     clockIn |-> fin[c].stamp,
     clockOut |-> NoTime, pos |-> fin[c].pos,
     selfieBase64 |-> IF fin[c].selfieBase64 # "" THEN fin[c].selfieBase64
                      ELSE FingerprintSentinel,
     marks |-> 0,
     isLate |-> IsLate(fin[c].stamp, tz, fin[c].official, Role(c)),
     closedBy |-> ""]

(* await db.upsert('attendance', ...): a new record when the call holds    *)
(* none, else the held record closed.  now = new Date() and isLate were    *)
(* taken before the call (stamp); the notification's id is taken after it. *)
Record(c, outs) ==
    /\ fin[c].pc = "record"
    /\ \E ok \in outs :
        IF ~ok
        THEN /\ view' = [view EXCEPT ![c] = Rejected(@, CloudError, Missing)]
             /\ fin' = [fin EXCEPT ![c] = Return(c)]
             /\ attendance' = attendance
        ELSE IF fin[c].currentRecord = NoRecord
        THEN /\ attendance' = Upsert(attendance, newRecord(c), FALSE)
             /\ view' = [view EXCEPT ![c] =
                    LET v == [@ EXCEPT !.currentRecord = newRecord(c)]
                    IN  IF newRecord(c).isLate THEN Render(v) ELSE Completed(v)]
             /\ fin' = [fin EXCEPT ![c] =
                    IF newRecord(c).isLate
                    THEN [@ EXCEPT !.writes = @ \cup {"attendance"}, !.pc = "notify",
                                   !.stamp = now]
                    ELSE Return(c)]
        ELSE LET closed == [fin[c].currentRecord EXCEPT !.clockOut = fin[c].stamp,
                                                        !.closedBy = "user"]
             IN  /\ attendance' = Upsert(attendance, closed, TRUE)
                 /\ view' = [view EXCEPT ![c] =
                        Completed([@ EXCEPT !.currentRecord = closed])]
                 /\ fin' = [fin EXCEPT ![c] = Return(c)]
    /\ UNCHANGED <<now, profile, notifications, scrub, fixed, camera>>

(* A variant that addresses every notification to the administrator.       *)
approverId_Admin(u) == "admin"

(* const approverId = user.managerId || 'admin'                            *)
approverId(u) == IF managerId[u] # "" THEN managerId[u] ELSE "admin"

(* if (isLate) await db.upsert('notifications', {id: notif_<now>, ...})    *)
Notify(c, outs) ==
    /\ fin[c].pc = "notify"
    /\ \E ok \in outs :
        IF ~ok
        THEN /\ view' = [view EXCEPT ![c] = Rejected(@, CloudError, Missing)]
             /\ fin' = [fin EXCEPT ![c] = Return(c)]
             /\ notifications' = notifications
        ELSE /\ notifications' =
                    {n \in notifications : n.id # fin[c].stamp}
                    \cup {[id |-> fin[c].stamp, recipientId |-> approverId(user[c]),
                           type |-> "LATE_ARRIVAL", about |-> user[c]]}
             /\ view' = [view EXCEPT ![c] = Completed(@)]
             /\ fin' = [fin EXCEPT ![c] = Return(c)]
    /\ UNCHANGED <<now, attendance, profile, scrub, fixed, camera>>

(* ------------------- App: runAutoClockOutScrub ------------------------ *)
RECURSIVE SortById(_)
SortById(S) ==
    IF S = {} THEN <<>>
    ELSE LET r == CHOOSE x \in S : \A y \in S : x.id <= y.id
         IN  <<r>> \o SortById(S \ {r})

(* A variant of the decision that closes a session of today already at    *)
(* the cutoff.                                                             *)
CloseAt_AtCutoff(session, listedAt, t, z) ==
    IF session.date < IsoDate(listedAt)
    THEN SetHours(session.date * TicksPerDay, z, config.officialClockOutTime)
    ELSE IF session.date = IsoDate(listedAt)
            /\ listedAt >= SetHours(t, z, config.officialClockOutTime)
    THEN SetHours(t, z, config.officialClockOutTime)
    ELSE NoTime

(* The loop's decision for one open session: closeAt, or NoTime when the   *)
(* session is left alone.  now and todayStr are taken once, before the     *)
(* loop (listedAt); the same-day cutoff is new Date() of the iteration (t). *)
CloseAt(session, listedAt, t, z) ==
    IF session.date < IsoDate(listedAt)
    THEN SetHours(session.date * TicksPerDay, z, config.officialClockOutTime)
    ELSE IF session.date = IsoDate(listedAt)
            /\ listedAt > SetHours(t, z, config.officialClockOutTime)
    THEN SetHours(t, z, config.officialClockOutTime)
    ELSE NoTime

(* The loop runs over the sessions it leaves alone, up to the next one it  *)
(* closes.                                                                 *)
RECURSIVE ToClose(_, _, _, _)
ToClose(sessions, listedAt, t, z) ==
    IF sessions = <<>> THEN <<>>
    ELSE IF CloseAt(Head(sessions), listedAt, t, z) # NoTime THEN sessions
    ELSE ToClose(Tail(sessions), listedAt, t, z)

(* The loop stands at the update of the first session of q, or is over.    *)
AtUpdate(q, listedAt, t, z) ==
    IF q = <<>> THEN IdleScrub
    ELSE [pc |-> "update", scrubbing |-> TRUE, queue |-> q, listedAt |-> listedAt,
          closeAt |-> CloseAt(Head(q), listedAt, t, z)]

(* .update({clockOut: closeAt, selfieBase64: session.selfieBase64 + marker}) *)
(* .eq('id', session.id)                                                   *)
ScrubWrite(table, session, closeAt) ==
    {IF r.id = session.id
     THEN [r EXCEPT !.clockOut = closeAt, !.selfieBase64 = session.selfieBase64,
                    !.marks = session.marks + 1, !.closedBy = "sweep"]
     ELSE r : r \in table}

(* A variant of the start that goes on without a config.                   *)
Started_Unguarded(u, cfg, ok) ==
    IF u = NoUser THEN IdleScrub
    ELSE [IdleScrub EXCEPT !.pc = "list", !.scrubbing = TRUE]

(* if (!user) return; setScrubbing(true);                                  *)
(* await system_config ... .single(); if (!config) return, and the         *)
(* finally clause clears the flag: the run as it stands after its start,   *)
(* for the user u logged in, the stored config cfg and a read that         *)
(* succeeds (ok) or not.                                                   *)
Started(u, cfg, ok) ==
    IF u = NoUser THEN IdleScrub
    ELSE IF ok /\ cfg # NoConfig
    THEN [IdleScrub EXCEPT !.pc = "list", !.scrubbing = TRUE]
    ELSE IdleScrub

(* The effect on [user] runs.  The config row is never written here, so    *)
(* the read is taken together with the start.                              *)
ScrubStart(c, outs) ==
    /\ scrub[c].pc = "off"
    /\ \E ok \in outs :
        scrub' = [scrub EXCEPT ![c] = Started(user[c], config, ok)]
    /\ UNCHANGED <<now, attendance, profile, notifications, view, fin, fixed, camera>>

(* A variant of the selection without the filter on clockOut.              *)
OpenSessions_All(table) == table

(* .from('attendance').select('*').is('clockOut', null)                    *)
OpenSessions(table) == {r \in table : r.clockOut = NoTime}

(* await attendance.select('*').is('clockOut', null); now = new Date();    *)
(* the loop up to its first update.                                        *)
ScrubList(c, outs) ==
    /\ scrub[c].pc = "list"
    /\ \E ok \in outs :
        LET openSessions == IF ok
                            THEN SortById(OpenSessions(attendance))
                            ELSE <<>>
        IN  scrub' = [scrub EXCEPT ![c] =
                         AtUpdate(ToClose(openSessions, now, now, tz), now, now, tz)]
    /\ UNCHANGED <<now, attendance, profile, notifications, view, fin, fixed, camera>>

(* await attendance.update({...}).eq('id', session.id): an error the store *)
(* returns is not looked at and the loop goes on to its next update; a     *)
(* call that throws leaves the loop for the catch and finally clauses.     *)
ScrubUpdate(c, outs, throws) ==
    /\ scrub[c].pc = "update"
    /\ \E ok \in outs, thrown \in throws :
        IF thrown
        THEN /\ attendance' = attendance
             /\ scrub' = [scrub EXCEPT ![c] = IdleScrub]
        ELSE /\ attendance' = IF ok THEN ScrubWrite(attendance, Head(scrub[c].queue),
                                                   scrub[c].closeAt)
                               ELSE attendance
             /\ scrub' = [scrub EXCEPT ![c] =
                    AtUpdate(ToClose(Tail(scrub[c].queue), scrub[c].listedAt, now, tz),
                             scrub[c].listedAt, now, tz)]
    /\ UNCHANGED <<now, profile, notifications, view, fin, fixed, camera>>

(* ------------------------- the specifications ------------------------- *)
(* No call throws.                                                         *)
NoThrow == {FALSE}

Scrub(c, outs) ==
    ScrubStart(c, outs) \/ ScrubList(c, outs) \/ ScrubUpdate(c, outs, NoThrow)

(* Two browser sessions, of one user or of two, on one day; no call fails. *)
Replies == {r \in OracleReply({60, 85}) : r.kind = "answer" /\ r.confidence # Missing}

Init ==
    /\ InitCommon
    /\ config = DefaultConfig
    /\ tz = 0
    /\ user \in {f \in [Clients -> Users] : f["c1"] = "u1" /\ f["c2"] # "u3"}

Next ==
    \/ Tick(StartTime + ShortTicks)
    \/ \E c \in Clients : Mount(c)
    \/ \E c \in Clients : FetchRecords(c, NoFault)
    \/ \E c \in Clients : FetchProfile(c, NoFault)
    \/ \E c \in Clients, r \in Replies, p \in Positions : Begin(c, Image(c), r, p)
    \/ \E c \in Clients, p \in Positions : Begin(c, "", NoReply, p)
    \/ \E c \in Clients : Verify(c)
    \/ \E c \in Clients : Locate(c, NoFault)
    \/ \E c \in Clients : Enroll(c, NoFault)
    \/ \E c \in Clients : Record(c, NoFault)
    \/ \E c \in Clients : Notify(c, NoFault)

Spec == Init /\ [][Next]_vars

(* One browser session on one day, in any time zone, for either user;      *)
(* every call to the store, the oracle and the GPS may fail.               *)
SoloReplies == OracleReply({60, 85})

InitSolo ==
    /\ InitCommon
    /\ config = DefaultConfig
    /\ tz \in TZOffsets
    /\ user \in {f \in [Clients -> Users] : f["c2"] = "u1"}

NextSolo ==
    \/ Tick(StartTime + ShortTicks)
    \/ Mount("c1")
    \/ FetchRecords("c1", Outcomes)
    \/ FetchProfile("c1", Outcomes)
    \/ \E r \in SoloReplies, p \in Positions \cup {GpsFailed} :
           Begin("c1", Image("c1"), r, p)
    \/ \E p \in Positions \cup {GpsFailed} : Begin("c1", "", NoReply, p)
    \/ Verify("c1")
    \/ Locate("c1", Outcomes)
    \/ Enroll("c1", Outcomes)
    \/ Record("c1", Outcomes)
    \/ Notify("c1", Outcomes)

SpecSolo == InitSolo /\ [][NextSolo]_vars

(* The same, where every call the running finalizeAttendance awaits        *)
(* returns or fails in the end.                                            *)
Returns(c) ==
    \/ Verify(c)
    \/ Locate(c, Outcomes)
    \/ Enroll(c, Outcomes)
    \/ Record(c, Outcomes)
    \/ Notify(c, Outcomes)

SpecSoloFair == SpecSolo /\ WF_vars(Returns("c1"))

(* One browser session of the employee and the scrub of two clients, over  *)
(* two days; the scrub's calls may fail.                                   *)
InitScrub ==
    /\ InitCommon
    /\ config = DefaultConfig
    /\ tz \in TZOffsets
    /\ user = [c \in Clients |-> "u1"]

NextScrub ==
    \/ Tick(MaxTime)
    \/ Mount("c1")
    \/ FetchRecords("c1", NoFault)
    \/ FetchProfile("c1", NoFault)
    \/ \E r \in Replies : Begin("c1", "imgA", r, 1)
    \/ Begin("c1", "", NoReply, 1)
    \/ Verify("c1")
    \/ Locate("c1", NoFault)
    \/ Enroll("c1", NoFault)
    \/ Record("c1", NoFault)
    \/ Notify("c1", NoFault)
    \/ \E c \in Clients : ScrubStart(c, Outcomes)
    \/ \E c \in Clients : ScrubList(c, Outcomes)
    \/ \E c \in Clients : ScrubUpdate(c, Outcomes, NoThrow)

SpecScrub == InitScrub /\ [][NextScrub]_vars

(* The identity gate alone: the employee is enrolled and the page loaded;  *)
(* the oracle's answer ranges over every confidence.                       *)
MaxConfidence == 100

InitGate ==
    /\ now = StartTime
    /\ tz = 0
    /\ config = DefaultConfig
    /\ attendance = {}
    /\ profile = [u \in Users |-> IF u = "u1" THEN "imgA" ELSE ""]
    /\ notifications = {}
    /\ user = [c \in Clients |-> "u1"]
    /\ view = [c \in Clients |->
                 IF c = "c1"
                 THEN [InitialView EXCEPT !.isLoading = FALSE, !.today = IsoDate(now),
                                          !.locations = Zones, !.masterSelfie = "imgA"]
                 ELSE InitialView]
    /\ fin = [c \in Clients |-> IF c = "c1" THEN Returned ELSE IdleFin]
    /\ scrub = [c \in Clients |-> IdleScrub]
    /\ camera = [c \in Clients |-> NoCamera]

NextGate ==
    \/ \E r \in OracleReply(0..MaxConfidence) : Begin("c1", "imgA", r, 1)
    \/ Verify("c1")
    \/ Locate("c1", NoFault)
    \/ Record("c1", NoFault)

SpecGate == InitGate /\ [][NextGate]_vars

(* Lateness: one session of either user over the hours of a day, in any    *)
(* time zone, with the configured clock-in time at or after the built-in   *)
(* one; the config read may fail.                                          *)
ConfiguredTimes == {officialClockInTime, officialClockInTime + 1}

InitLate ==
    /\ InitCommon
    /\ tz \in TZOffsets
    /\ config \in {[DefaultConfig EXCEPT !.officialClockInTime = h] :
                       h \in ConfiguredTimes}
    /\ user \in {f \in [Clients -> Users] : f["c2"] = "u1"}

NextLate ==
    \/ Tick(MaxTime)
    \/ Mount("c1")
    \/ FetchRecords("c1", NoFault)
    \/ FetchProfile("c1", NoFault)
    \/ \E p \in Positions : Begin("c1", "", NoReply, p)
    \/ Locate("c1", Outcomes)
    \/ Record("c1", NoFault)
    \/ Notify("c1", NoFault)

SpecLate == InitLate /\ [][NextLate]_vars

(* Two sweeps in succession over a store left by earlier days: the first   *)
(* (client c1) has read the config, the second (client c2) starts when     *)
(* the first is over.  The clock stands still and no call fails.           *)
Stored(i, u, out) ==
    [id |-> i, userId |-> u, date |-> IsoDate(i), clockIn |-> i, clockOut |-> out,
     pos |-> 1, selfieBase64 |-> FingerprintSentinel, marks |-> 0, isLate |-> FALSE,
     closedBy |-> IF out = NoTime THEN "" ELSE "user"]

Stores ==
    {old \cup new :
        old \in {{}} \cup {{Stored(officialClockInTime, "u2", out)} :
                                out \in {NoTime, officialClockInTime + 1}},
        new \in {{}} \cup {{Stored(StartTime, "u2", out)} :
                                out \in {NoTime, StartTime + 1}}}

InitTwice ==
    /\ now \in StartTime..MaxTime
    /\ tz \in TZOffsets
    /\ config = DefaultConfig
    /\ attendance \in Stores
    /\ \A r \in attendance : r.clockOut <= now
    /\ profile = [u \in Users |-> ""]
    /\ notifications = {}
    /\ user = [c \in Clients |-> "u1"]
    /\ view = [c \in Clients |-> InitialView]
    /\ fin = [c \in Clients |-> IdleFin]
    /\ scrub = [c \in Clients |->
                  IF c = "c1" THEN [IdleScrub EXCEPT !.pc = "list", !.scrubbing = TRUE]
                  ELSE IdleScrub]
    /\ camera = [c \in Clients |-> NoCamera]

(* The second sweep waits for the first to be over.                        *)
InTurn(c) == c = "c2" => scrub["c1"].pc = "off"

NextTwice ==
    \/ InTurn("c2") /\ ScrubStart("c2", NoFault)
    \/ \E c \in Clients : InTurn(c) /\ ScrubList(c, NoFault)
    \/ \E c \in Clients : InTurn(c) /\ ScrubUpdate(c, NoFault, NoThrow)

SpecTwice == InitTwice /\ [][NextTwice]_vars

(* Sweeps of both clients over a store left by earlier days, where a read  *)
(* or an update may return an error and an update may throw.               *)
NextFaulty ==
    \/ \E c \in Clients : ScrubStart(c, Outcomes)
    \/ \E c \in Clients : ScrubList(c, Outcomes)
    \/ \E c \in Clients : ScrubUpdate(c, Outcomes, BOOLEAN)

SpecFaulty == InitTwice /\ [][NextFaulty]_vars

(* The verification dialogue of one browser session: the user opens it,    *)
(* picks a method, goes through with it, cancels or leaves the page; the   *)
(* camera may be refused.                                                  *)
InitCamera ==
    /\ InitCommon
    /\ config = DefaultConfig
    /\ tz = 0
    /\ user = [c \in Clients |-> "u1"]

NextCamera ==
    \/ Tick(StartTime + ShortTicks)
    \/ Mount("c1")
    \/ FetchRecords("c1", NoFault)
    \/ FetchProfile("c1", NoFault)
    \/ Select("c1")
    \/ ChooseFace("c1")
    \/ startCamera("c1", Outcomes)
    \/ ChooseTouch("c1")
    \/ Cancel("c1")
    \/ \E r \in Replies : captureFace("c1", r, 1)
    \/ Touch("c1", 1)
    \/ Unmount("c1")
    \/ Verify("c1")
    \/ Locate("c1", NoFault)
    \/ Enroll("c1", NoFault)
    \/ Record("c1", NoFault)
    \/ Notify("c1", NoFault)

SpecCamera == InitCamera /\ [][NextCamera]_vars

(* The geofence step alone: the page is loaded with any list of up to      *)
(* MaxZones zones, the empty list of a failed or empty load included, and  *)
(* the user touches in and out at any position of the line.                *)
ZoneLists ==
    UNION {[1..n -> [latitude : {0, 3}, radius : {0, 1}]] : n \in 0..MaxZones}

FencePositions == 0..3

InitFence ==
    /\ now = StartTime
    /\ tz = 0
    /\ config = DefaultConfig
    /\ attendance = {}
    /\ profile = [u \in Users |-> ""]
    /\ notifications = {}
    /\ user \in {f \in [Clients -> Users] : f["c2"] = "u1"}
    /\ \E zones \in ZoneLists :
           view = [c \in Clients |->
                     IF c = "c1"
                     THEN [InitialView EXCEPT !.isLoading = FALSE,
                                              !.today = IsoDate(now),
                                              !.locations = zones,
                                              !.isEnrolling = TRUE]
                     ELSE InitialView]
    /\ fin = [c \in Clients |-> IF c = "c1" THEN Returned ELSE IdleFin]
    /\ scrub = [c \in Clients |-> IdleScrub]
    /\ camera = [c \in Clients |-> NoCamera]

NextFence ==
    \/ \E p \in FencePositions : Begin("c1", "", NoReply, p)
    \/ Locate("c1", NoFault)
    \/ Record("c1", NoFault)

SpecFence == InitFence /\ [][NextFence]_vars

(* Sweeps of two clients over a store left by earlier days, where a client *)
(* may have nobody logged in and the config row may be absent.             *)
InitAbsent ==
    /\ now = StartTime
    /\ tz \in TZOffsets
    /\ config \in {DefaultConfig, NoConfig}
    /\ attendance \in Stores
    /\ \A r \in attendance : r.clockOut <= now
    /\ profile = [u \in Users |-> ""]
    /\ notifications = {}
    /\ user \in [Clients -> {NoUser, "u1"}]
    /\ view = [c \in Clients |-> InitialView]
    /\ fin = [c \in Clients |-> IdleFin]
    /\ scrub = [c \in Clients |-> IdleScrub]
    /\ camera = [c \in Clients |-> NoCamera]

NextAbsent ==
    \/ Tick(MaxTime)
    \/ \E c \in Clients : ScrubStart(c, Outcomes)
    \/ \E c \in Clients : ScrubList(c, Outcomes)
    \/ \E c \in Clients : ScrubUpdate(c, Outcomes, BOOLEAN)

SpecAbsent == InitAbsent /\ [][NextAbsent]_vars

(* ------------------------------ properties ---------------------------- *)
(* What a step leaves in the store.                                        *)
StoreUnchanged ==
    /\ attendance' = attendance
    /\ profile' = profile
    /\ notifications' = notifications

(* The step is one of client c's finalizeAttendance call at position pc.   *)
FinStep(c, pc) == fin[c].pc = pc /\ fin'[c] # fin[c]

(* The identity gate consults the oracle in this call.                     *)
GateApplies(c) == ~fin[c].isEnrolling /\ fin[c].masterSelfie # ""

(* C1: at every moment the store holds at most one attendance record for   *)
(* any pair of user and calendar date, two sessions of the user included.  *)
C1_OneRecordPerUserDate ==
    \A r1, r2 \in attendance :
        (r1.userId = r2.userId /\ r1.date = r2.date) => r1 = r2

(* C2: a record that has a clockOut is never given another clockOut, by a  *)
(* view that still holds it as open or by the sweep.                       *)
C2_ClosedIsTerminal ==
    [][\A r \in attendance :
           r.clockOut # NoTime =>
               \E q \in attendance' : q.id = r.id /\ q.clockOut = r.clockOut]_vars

(* C3: the sweep's update of a session changes nothing when the record was *)
(* closed between the sweep's listing and its update.                      *)
C3_SweepWritesOnlyOpen ==
    [][\A c \in Clients :
           (scrub[c].pc = "update" /\ scrub'[c] # scrub[c]) =>
               \A r \in attendance :
                   (r.id = Head(scrub[c].queue).id /\ r.clockOut # NoTime)
                       => r \in attendance']_vars

(* C4: a user has at most one open record, an open session of an earlier   *)
(* date and a clock-in on a later date included.                           *)
C4_OneOpenPerUser ==
    \A r1, r2 \in attendance :
        (r1.userId = r2.userId /\ r1.clockOut = NoTime /\ r2.clockOut = NoTime)
            => r1 = r2

(* C5: a clock-in of an EMPLOYEE whose position is outside every zone is   *)
(* rejected with the outside-geofence error and writes no record, no       *)
(* profile and no notification, an enrolling user's included.              *)
C5_OutsideGeofenceRejected ==
    [][\A c \in Clients :
           (/\ FinStep(c, "locate")
            /\ Role(c) = "EMPLOYEE"
            /\ fin[c].currentRecord = NoRecord
            /\ fin[c].at \in Positions
            /\ \A i \in 1..Len(Zones) :
                   calculateDistance(fin[c].at, Zones[i].latitude) > Zones[i].radius)
           => /\ view'[c].error = GeofenceError
              /\ fin'[c].pc \in {"idle", "fetchRecords"}
              /\ fin[c].writes = {}
              /\ StoreUnchanged]_vars

(* An enrolling EMPLOYEE with the zones loaded was turned away at the      *)
(* geofence and nothing is stored.                                         *)
C5_Witness ==
    \E c \in Clients :
        /\ Role(c) = "EMPLOYEE"
        /\ view[c].error = GeofenceError
        /\ view[c].isEnrolling
        /\ view[c].locations = Zones
        /\ fin[c].pc = "idle"
        /\ attendance = {} /\ notifications = {} /\ profile[user[c]] = ""

(* C6: for a user with a master profile an oracle answer that is no pass   *)
(* ends the attempt with the mismatch error carrying the confidence and    *)
(* writes nothing; and a clock-in writes to the store only after the       *)
(* identity check passed (when a face was captured) and the geofence       *)
(* check was passed or does not apply to the role.                         *)
C6_MismatchRejectedBeforeWrites ==
    [][\A c \in Clients :
           /\ (/\ FinStep(c, "verify")
               /\ GateApplies(c)
               /\ fin[c].reply.kind = "answer"
               /\ ~(fin[c].reply.isMatch /\ fin[c].reply.confidence >= MatchThreshold))
              => /\ view'[c].error = MismatchError
                 /\ view'[c].errorConfidence =
                        (IF fin[c].reply.confidence = Missing THEN 0
                         ELSE fin[c].reply.confidence)
                 /\ fin'[c].pc \in {"idle", "fetchRecords"}
                 /\ fin[c].writes = {}
                 /\ StoreUnchanged
           /\ (/\ fin'[c] # fin[c]
               /\ fin[c].currentRecord = NoRecord
               /\ ~StoreUnchanged)
              => /\ fin[c].selfieBase64 # "" => fin[c].passed
                 /\ fin[c].pos \in Positions
                 /\ fin[c].matched \/ Role(c) # "EMPLOYEE"]_vars

(* An enrolled user was turned away with the mismatch error at 60%.        *)
C6_Witness ==
    \E c \in Clients :
        /\ profile[user[c]] # ""
        /\ view[c].masterSelfie = profile[user[c]]
        /\ view[c].error = MismatchError
        /\ view[c].errorConfidence = 60
        /\ fin[c].pc = "idle"

(* C7: for an answer of the oracle with a confidence from 0 to 100 or with *)
(* none, the gate passes exactly when isMatch is true and the confidence   *)
(* is at least 85.                                                         *)
C7_PassIffMatchAndThreshold ==
    [][\A c \in Clients :
           (/\ FinStep(c, "verify")
            /\ GateApplies(c)
            /\ fin[c].reply.kind = "answer")
           => (fin'[c].pc = "locate"
                   <=> /\ fin[c].reply.isMatch = TRUE
                       /\ fin[c].reply.confidence # Missing
                       /\ fin[c].reply.confidence >= 85)]_vars

(* The gate has passed an enrolled user on an answer of exactly 85.        *)
C7_Witness ==
    \E c \in Clients :
        /\ fin[c].pc = "locate"
        /\ fin[c].masterSelfie # "" /\ ~fin[c].isEnrolling
        /\ fin[c].passed
        /\ fin[c].reply.isMatch /\ fin[c].reply.confidence = 85

(* C8: when the oracle call fails or its response does not parse, the      *)
(* attempt of an enrolled user ends with an error other than the mismatch  *)
(* error and no record is created or modified.                             *)
C8_OracleFailureFailsClosed ==
    [][\A c \in Clients :
           (/\ FinStep(c, "verify")
            /\ GateApplies(c)
            /\ fin[c].reply.kind \in {"throws", "unparsable"})
           => /\ view'[c].error = HandshakeError
              /\ view'[c].error # MismatchError
              /\ fin'[c].pc \in {"idle", "fetchRecords"}
              /\ fin[c].writes = {}
              /\ StoreUnchanged]_vars

(* An enrolled user's attempt ended with the handshake error.              *)
C8_Witness ==
    \E c \in Clients :
        /\ profile[user[c]] # ""
        /\ view[c].masterSelfie = profile[user[c]]
        /\ view[c].error = HandshakeError
        /\ fin[c].pc = "idle"

(* C9: a face clock-in of a user with no stored profile that succeeds      *)
(* leaves the captured artifact stored as the user's profile, also when    *)
(* the view's lookup of the profile had failed.                            *)
C9_EnrollmentPersisted ==
    [][\A c \in Clients :
           (/\ FinStep(c, "record")
            /\ fin[c].currentRecord = NoRecord
            /\ fin[c].selfieBase64 # ""
            /\ attendance' # attendance
            /\ profile[user[c]] = "" \/ "users" \in fin[c].writes)
           => profile'[user[c]] = fin[c].selfieBase64]_vars

(* C10: a stored profile is never replaced, whatever the session that      *)
(* clocks in believes about it.                                            *)
C10_ProfileNeverOverwritten ==
    [][\A u \in Users : profile[u] # "" => profile'[u] = profile[u]]_vars

LocalHour(t) == (t + tz) % TicksPerDay

C13_PrivilegedExempt ==
    [][/\ \A c \in Clients :
              Role(c) # "EMPLOYEE" =>
                  /\ (/\ FinStep(c, "locate")
                      /\ fin[c].currentRecord = NoRecord
                      /\ fin[c].at \in Positions)
                     => /\ fin'[c].pc \in {"enroll", "record"}
                        /\ view'[c].error = ""
                  /\ (/\ FinStep(c, "record")
                      /\ fin[c].currentRecord = NoRecord
                      /\ view'[c].error # CloudError)
                     => /\ \E r \in attendance' :
                               /\ r.id = fin[c].stamp /\ r.userId = user[c]
                               /\ r.pos = fin[c].pos /\ ~r.isLate
                        /\ fin'[c].pc # "notify"
                        /\ notifications' = notifications
       /\ \A r \in attendance' : UserRole[r.userId] # "EMPLOYEE" => ~r.isLate
       /\ \A n \in notifications' : UserRole[n.about] = "EMPLOYEE"]_vars

(* A MANAGER's record made outside the zone after the official time: not   *)
(* late, nobody notified.                                                  *)
C13_Witness ==
    \E r \in attendance :
        /\ UserRole[r.userId] # "EMPLOYEE"
        /\ ~matchedLoc(Zones, r.pos)
        /\ LocalHour(r.clockIn) > config.officialClockInTime
        /\ ~r.isLate
        /\ notifications = {}

(* The step is an update of client c's sweep, for the session it stands at. *)
SweepStep(c) == scrub[c].pc = "update" /\ scrub'[c] # scrub[c]

(* C14: a sweep that closes a record of an earlier date writes as clockOut *)
(* the official clock-out hour of the record's own calendar day, whenever  *)
(* it runs and whatever the client's offset.                               *)
C14_StaleClosedOnOwnDate ==
    [][\A c \in Clients :
           (/\ SweepStep(c)
            /\ Head(scrub[c].queue).date < IsoDate(scrub[c].listedAt)
            /\ attendance' # attendance)
           => \E r \in attendance' :
                  /\ r.id = Head(scrub[c].queue).id
                  /\ LocalDate(r.clockOut, tz) = Head(scrub[c].queue).date
                  /\ LocalHour(r.clockOut) = config.officialClockOutTime]_vars

(* The instant th is the official clock-out time of the local day of t.    *)
IsCutoffOf(th, t) ==
    /\ LocalDate(th, tz) = LocalDate(t, tz)
    /\ LocalHour(th) = config.officialClockOutTime

(* A sweep that read the clock at listedAt and decides at t closes the     *)
(* session: it is of an earlier date, or of today and past the cutoff.     *)
Eligible(session, listedAt, t) ==
    \/ session.date < IsoDate(listedAt)
    \/ /\ session.date = IsoDate(listedAt)
       /\ \E th \in 0..(listedAt - 1) : IsCutoffOf(th, t)

Ids(q) == {q[i].id : i \in 1..Len(q)}

C16_SecondSweepIsNoOp ==
    [][scrub'["c2"] # scrub["c2"] =>
           /\ scrub'["c2"].pc # "update"
           /\ attendance' = attendance]_vars

(* The first sweep closed a record and is over; the second has read the    *)
(* config and is about to select.                                          *)
C16_Witness ==
    /\ scrub["c1"].pc = "off"
    /\ scrub["c2"].pc = "list"
    /\ \E r \in attendance : r.marks = 1
    /\ \E r \in attendance : r.marks = 0 /\ r.clockOut # NoTime

(* C17: whatever happens to the update of one session, the sweep goes on   *)
(* to every session it has listed after it that is due to be closed.       *)
C17_SweepContinuesAfterFailure ==
    [][\A c \in Clients :
           SweepStep(c) =>
               \A i \in 2..Len(scrub[c].queue) :
                   Eligible(scrub[c].queue[i], scrub[c].listedAt, now)
                       => scrub[c].queue[i].id \in Ids(scrub'[c].queue)]_vars

(* C18: a clock-in attempt that ends with an error shown to the user has   *)
(* written neither an attendance record nor a profile.                     *)
C18_FailedClockInWritesNothing ==
    [][\A c \in Clients :
           (/\ fin'[c] # fin[c]
            /\ Busy(c)
            /\ fin[c].currentRecord = NoRecord
            /\ view'[c].error # "")
           => /\ fin[c].writes = {}
              /\ attendance' = attendance
              /\ profile' = profile]_vars

(* C19: the date of every attendance record is the local calendar day of   *)
(* the client at the instant of its clock-in.                              *)
C19_DateIsLocalDay ==
    \A r \in attendance : r.date = LocalDate(r.clockIn, tz)

(* The late notification for user u made with identifier i.                *)
LateNotice(i, u) ==
    [id |-> i,
     recipientId |-> IF managerId[u] = "" THEN "admin" ELSE managerId[u],
     type |-> "LATE_ARRIVAL", about |-> u]

Abandon(c) ==
    /\ fin[c].pc = "idle"
    /\ view[c].authStage \in {"method_selection", "verifying_face",
                               "verifying_fingerprint"}
    /\ \/ fin'[c].pc = "unmounted"
       \/ view'[c].authStage = "idle" /\ fin'[c] = fin[c] /\ camera' = camera

(* C21: a step that abandons a verification in progress changes no         *)
(* attendance record and leaves no stream of the view running.             *)
C21_AbandonReleasesAll ==
    [][\A c \in Clients :
           Abandon(c) => attendance' = attendance /\ camera'[c].live = 0]_vars

(* C22: a step of a user's clock-in or clock-out leaves every record of    *)
(* another user in the store as it was, and the records it adds or changes *)
(* are the user's own; so once the views of two different users each hold  *)
(* the record of a clock-in, the store holds one record for each of them.  *)
C22_UsersTouchDisjointRecords ==
    [][\A c \in Clients :
           fin'[c] # fin[c] =>
               /\ \A r \in attendance : r.userId # user[c] => r \in attendance'
               /\ \A r \in attendance' \ attendance : r.userId = user[c]
               /\ (/\ user["c1"] # user["c2"]
                   /\ \A d \in Clients : view'[d].currentRecord # NoRecord)
                  => \A d \in Clients :
                         Cardinality({r \in attendance' : r.userId = user[d]}) = 1]_vars

(* C23: a closed record's artifact ends with the marker exactly when the   *)
(* clockOut the record holds was written by the sweep.                     *)
C23_MarkedIffSweepClosed ==
    \A r \in attendance :
        r.clockOut # NoTime => (r.marks >= 1 <=> r.closedBy = "sweep")

(* The fields of a row that are set when it is created.                    *)
Created(r) == <<r.userId, r.date, r.clockIn, r.pos, r.isLate>>

(* The step is the store write of a manual clock-out of client c.          *)
ClockOutStep(c) == FinStep(c, "record") /\ fin[c].currentRecord # NoRecord

(* C24: a manual clock-out and a sweep leave isLate, userId, date, clockIn *)
(* and the position of every stored record as they were, and a manual      *)
(* clock-out changes nothing of the stored record but its clockOut.        *)
C24_ClosingKeepsCreatedFields ==
    [][\A r \in attendance, q \in attendance' :
           r.id = q.id =>
               /\ ((\E c \in Clients : ClockOutStep(c)) \/ scrub' # scrub)
                  => Created(q) = Created(r)
               /\ (\E c \in Clients : ClockOutStep(c))
                  => /\ q.selfieBase64 = r.selfieBase64
                     /\ q.marks = r.marks]_vars

(* The call of client c was made by the touch button: it has no image.     *)
TouchPath(c) ==
    /\ fin[c].pc \in {"verify", "locate", "enroll", "record", "notify"}
    /\ fin[c].selfieBase64 = ""

(* C25: a call made by the touch button goes to the position check without *)
(* the oracle, is never rejected for identity, whether the user is         *)
(* enrolled or not, and never writes the master profile; the record a call *)
(* creates stores the sentinel on the touch path and the captured image on  *)
(* the face path.                                                          *)
C25_TouchPathSkipsOracle ==
    [][\A c \in Clients :
           /\ (~TouchPath(c) /\ TouchPath(c)')
              => fin'[c].pc = "locate" /\ fin'[c].reply = NoReply
           /\ (TouchPath(c) /\ fin'[c] # fin[c])
              => /\ fin[c].pc \notin {"verify", "enroll"}
                 /\ fin'[c].pc \notin {"verify", "enroll"}
                 /\ view'[c].error \notin {MismatchError, HandshakeError}
                 /\ profile' = profile
           /\ (/\ FinStep(c, "record")
               /\ fin[c].currentRecord = NoRecord
               /\ view'[c].error # CloudError)
              => \E r \in attendance' :
                     /\ r.id = fin[c].stamp
                     /\ r.selfieBase64 = IF TouchPath(c) THEN FingerprintSentinel
                                         ELSE Image(c)]_vars

(* The touch clock-in of a user whose view holds a master profile has     *)
(* written its record, with the sentinel, and the profile is as it was.    *)
C25_Witness ==
    /\ TouchPath("c1")
    /\ fin["c1"].pc = "notify"
    /\ fin["c1"].masterSelfie # "" /\ ~fin["c1"].isEnrolling
    /\ fin["c1"].currentRecord = NoRecord
    /\ view["c1"].currentRecord.selfieBase64 = FingerprintSentinel
    /\ view["c1"].currentRecord \in attendance
    /\ profile[user["c1"]] = fin["c1"].masterSelfie

(* Point p lies in zone z, its boundary included.                          *)
Within(p, z) == p - z.latitude <= z.radius /\ z.latitude - p <= z.radius

(* C26: the geofence step of an EMPLOYEE's clock-in lets the call go on    *)
(* exactly when the position lies within some zone of the list the view    *)
(* holds, the boundary included; with an empty list it never does.  A call *)
(* it stops ends with the geofence error and has written nothing.          *)
C26_PassIffWithinSomeZone ==
    [][\A c \in Clients :
           (/\ FinStep(c, "locate")
            /\ Role(c) = "EMPLOYEE"
            /\ fin[c].currentRecord = NoRecord
            /\ fin[c].at # GpsFailed)
           => /\ fin'[c].pc \in {"enroll", "record"}
                 <=> \E i \in 1..Len(fin[c].locations) :
                         Within(fin[c].at, fin[c].locations[i])
              /\ fin'[c].pc \notin {"enroll", "record"}
                 => view'[c].error = GeofenceError /\ StoreUnchanged
              /\ fin[c].locations = <<>> => view'[c].error = GeofenceError]_vars

(* An EMPLOYEE standing exactly on the boundary of the second zone of the  *)
(* list, and within no other, has passed the geofence step.                *)
C26_Witness ==
    /\ fin["c1"].pc = "record"
    /\ Role("c1") = "EMPLOYEE"
    /\ fin["c1"].currentRecord = NoRecord
    /\ Len(fin["c1"].locations) = 2
    /\ calculateDistance(fin["c1"].pos, fin["c1"].locations[2].latitude)
           = fin["c1"].locations[2].radius
    /\ fin["c1"].locations[2].radius > 0
    /\ ~Within(fin["c1"].pos, fin["c1"].locations[1])

(* C27: every closed attendance record has its clockOut at or after its    *)
(* clockIn.                                                                *)
C27_ClockOutNotBeforeClockIn ==
    \A r \in attendance : r.clockOut # NoTime => r.clockOut >= r.clockIn

(* finalizeAttendance of client c is running.                              *)
InCall(c) == fin[c].pc \in {"verify", "locate", "enroll", "record", "notify"}

(* C28: a running finalizeAttendance leads to a state where the call is    *)
(* over and the view has isProcessing false and authStage 'idle'.          *)
C28_CallEndsIdle ==
    \A c \in Clients :
        InCall(c) ~> (/\ ~InCall(c)
                      /\ ~view[c].isProcessing
                      /\ view[c].authStage = "idle")

(* A face clock-in has ended with the store's error: the view is idle and  *)
(* not processing.                                                         *)
C28_Witness ==
    /\ fin["c1"].pc = "idle"
    /\ view["c1"].error = CloudError
    /\ view["c1"].masterSelfie # ""
    /\ ~view["c1"].isProcessing
    /\ view["c1"].authStage = "idle"

(* C29: no record's artifact carries the marker more than once.            *)
C29_MarkedAtMostOnce ==
    \A r \in attendance : r.marks <= 1

(* A sweep stands at the update of a session it listed as open, which      *)
(* another client's sweep has closed and marked in the meantime.           *)
C29_Witness ==
    \E c \in Clients, r \in attendance :
        /\ scrub[c].pc = "update"
        /\ Head(scrub[c].queue).id = r.id
        /\ Head(scrub[c].queue).clockOut = NoTime
        /\ r.marks = 1
        /\ r.closedBy = "sweep"

(* The sweep of client c runs with nobody logged in or without a config    *)
(* row.                                                                    *)
Unarmed(c) == user[c] = NoUser \/ config = NoConfig

(* C30: the sweep of a client where nobody is logged in, or that finds no  *)
(* config row, never gets past its start: after each of its steps it is    *)
(* over with the scrubbing flag false, and a step in which no other        *)
(* client's sweep moves changes no attendance record.                      *)
C30_UnarmedSweepIsNoOp ==
    [][\A c \in Clients :
           Unarmed(c) =>
               /\ scrub'[c] = IdleScrub
               /\ (\A d \in Clients \ {c} : scrub'[d] = scrub[d])
                      => attendance' = attendance]_vars

(* Days have passed with no config row: a stale session is still open,     *)
(* nothing was closed by a sweep and no sweep is marked as running.        *)
C30_Witness ==
    /\ config = NoConfig
    /\ \E c \in Clients : user[c] # NoUser
    /\ now = MaxTime
    /\ \E r \in attendance : r.clockOut = NoTime /\ r.date < IsoDate(now)
    /\ \A r \in attendance : r.closedBy # "sweep"
    /\ \A c \in Clients : ~scrub[c].scrubbing

====
